---- MODULE Spec2Model ----
(***************************************************************************)
(* Model of tf_quant_finance/math/piecewise.py: the piecewise constant     *)
(* function PiecewiseConstantFunc (construction, evaluation, integration)  *)
(* and the standalone interval search find_interval_index.                 *)
(*                                                                         *)
(* Tensors are records [shape |-> <<d1, ..., dk>>, at |-> f] where f maps  *)
(* every 0-based index tuple of the shape to an integer.  Real numbers are *)
(* modelled by integers: every arithmetic step of the code is exact on     *)
(* them.  The array engine primitives the code calls (searchsorted,        *)
(* gather_nd, cumsum, concat, expand_dims, squeeze, broadcast_to, ...)     *)
(* are operators that compute what the primitive computes.                 *)
(***************************************************************************)
EXTENDS Integers, Sequences, FiniteSets, TLC

VARIABLES
  jump_locations,  \* self._jump_locations (NoTensor before construction)
  values,          \* self._values
  batch_rank,      \* self._batch_rank
  op,              \* the last operation invoked, with its arguments
  outcome,         \* "none", "ok", "ValueError" or "InvalidArgumentError"
  result,          \* the tensor the operation returned, NoTensor if none
  trace,           \* the array-engine stages the operation went through
  gathers          \* the tf.gather_nd reads the operation made, in order

vars == <<jump_locations, values, batch_rank, op, outcome, result, trace, gathers>>

\* ------------------------------------------------------------ bounds
\* Largest number of jump locations of a function.  Jump locations are drawn
\* from the even coordinates 2, 4, ..., 2*MaxN and query points from
\* 1..2*MaxN+1, so that queries fall below, on, between and above them.
MaxN == 2

\* ------------------------------------------------------- sequences
Take(s, k) == SubSeq(s, 1, k)
Drop(s, k) == SubSeq(s, k + 1, Len(s))
Front(s) == SubSeq(s, 1, Len(s) - 1)
Last(s) == s[Len(s)]
Reverse(s) == [i \in 1..Len(s) |-> s[Len(s) + 1 - i]]
Min2(a, b) == IF a <= b THEN a ELSE b
Max2(a, b) == IF a >= b THEN a ELSE b

RECURSIVE SumTo(_, _)
\* f[0] + ... + f[k], for f a function on index numbers.
SumTo(f, k) == IF k < 0 THEN 0 ELSE f[k] + SumTo(f, k - 1)

\* ---------------------------------------------------------- tensors
RECURSIVE Indices(_)
\* Every 0-based index tuple of a tensor of the given shape.
Indices(shape) ==
  IF shape = <<>> THEN {<<>>}
  ELSE {<<i>> \o r : i \in 0..(Head(shape) - 1), r \in Indices(Tail(shape))}

NoTensor == [shape |-> <<0>>, at |-> <<>>]

Rank(t) == Len(t.shape)

\* A rank-1 tensor holding the elements of a sequence.
Vec(s) == [shape |-> <<Len(s)>>, at |-> [ix \in Indices(<<Len(s)>>) |-> s[ix[1] + 1]]]

\* The elements of a rank-1 tensor, as a sequence.
Row(t) == [i \in 1..t.shape[1] |-> t.at[<<i - 1>>]]

\* The index of an operand of shape s that NumPy broadcasting reads for the
\* result index ix (shapes aligned from the right, size-1 axes repeated).
BroadcastIndex(s, ix) ==
  [i \in 1..Len(s) |-> IF s[i] = 1 THEN 0 ELSE ix[Len(ix) - Len(s) + i]]

\* NumPy's rule for broadcasting shape s to shape target.
BroadcastableTo(s, target) ==
  /\ Len(s) <= Len(target)
  /\ \A i \in 1..Len(s) :
       s[i] = 1 \/ s[i] = target[Len(target) - Len(s) + i]

\* The shape two operands broadcast to (they are compatible in every use).
BroadcastShape(a, b) ==
  LET n == Max2(Len(a), Len(b))
      da(i) == IF i > n - Len(a) THEN a[i - (n - Len(a))] ELSE 1
      db(i) == IF i > n - Len(b) THEN b[i - (n - Len(b))] ELSE 1
  IN  [i \in 1..n |-> IF da(i) = 1 THEN db(i) ELSE da(i)]

\* tf.broadcast_to / np.broadcast_to
broadcast_to(t, shape) ==
  [shape |-> shape,
   at |-> [ix \in Indices(shape) |-> t.at[BroadcastIndex(t.shape, ix)]]]

\* tf.expand_dims(t, axis) with the new axis at 0-based position pos.
expand_dims(t, pos) ==
  LET shape == Take(t.shape, pos) \o <<1>> \o Drop(t.shape, pos)
  IN  [shape |-> shape,
       at |-> [ix \in Indices(shape) |-> t.at[Take(ix, pos) \o Drop(ix, pos + 1)]]]

\* tf.squeeze(t, 0)
squeeze0(t) ==
  [shape |-> Tail(t.shape),
   at |-> [ix \in Indices(Tail(t.shape)) |-> t.at[<<0>> \o ix]]]

\* tf.zeros(shape)
zeros(shape) == [shape |-> shape, at |-> [ix \in Indices(shape) |-> 0]]

\* Elementwise a + b, a - b, a * b, minimum, maximum, with broadcasting.
add(a, b) ==
  LET shape == BroadcastShape(a.shape, b.shape)
  IN  [shape |-> shape,
       at |-> [ix \in Indices(shape) |->
                 a.at[BroadcastIndex(a.shape, ix)] + b.at[BroadcastIndex(b.shape, ix)]]]

subtract(a, b) ==
  LET shape == BroadcastShape(a.shape, b.shape)
  IN  [shape |-> shape,
       at |-> [ix \in Indices(shape) |->
                 a.at[BroadcastIndex(a.shape, ix)] - b.at[BroadcastIndex(b.shape, ix)]]]

multiply(a, b) ==
  LET shape == BroadcastShape(a.shape, b.shape)
  IN  [shape |-> shape,
       at |-> [ix \in Indices(shape) |->
                 a.at[BroadcastIndex(a.shape, ix)] * b.at[BroadcastIndex(b.shape, ix)]]]

minimum(a, b) ==
  LET shape == BroadcastShape(a.shape, b.shape)
  IN  [shape |-> shape,
       at |-> [ix \in Indices(shape) |->
                 Min2(a.at[BroadcastIndex(a.shape, ix)], b.at[BroadcastIndex(b.shape, ix)])]]

maximum(a, b) ==
  LET shape == BroadcastShape(a.shape, b.shape)
  IN  [shape |-> shape,
       at |-> [ix \in Indices(shape) |->
                 Max2(a.at[BroadcastIndex(a.shape, ix)], b.at[BroadcastIndex(b.shape, ix)])]]

\* A scalar as a rank-0 tensor.
Scalar(c) == [shape |-> <<>>, at |-> [ix \in {<<>>} |-> c]]

\* tf.searchsorted(sorted_sequence, x, side): sorted_sequence of shape B + [n]
\* is non-decreasing along its last axis, x has shape B + [m]; the result has
\* the shape of x and holds the insertion points: the number of elements of
\* the row that are < the query (side = "left") or <= the query ("right").
searchsorted(sorted_sequence, x, side) ==
  LET n == Last(sorted_sequence.shape)
  IN  [shape |-> x.shape,
       at |-> [ix \in Indices(x.shape) |->
                 Cardinality({j \in 0..(n - 1) :
                    IF side = "left"
                    THEN sorted_sequence.at[Front(ix) \o <<j>>] < x.at[ix]
                    ELSE sorted_sequence.at[Front(ix) \o <<j>>] <= x.at[ix]})]]

\* tf.concat([a, b], axis) with 0-based axis.
concat(a, b, axis) ==
  LET na == a.shape[axis + 1]
      shape == [a.shape EXCEPT ![axis + 1] = na + b.shape[axis + 1]]
  IN  [shape |-> shape,
       at |-> [ix \in Indices(shape) |->
                 IF ix[axis + 1] < na THEN a.at[ix]
                 ELSE b.at[[ix EXCEPT ![axis + 1] = ix[axis + 1] - na]]]]

\* tf.gather_nd(params, indices): indices has shape I + [k]; the result has
\* shape I + params.shape[k:], and reads params at the k coordinates held
\* in the last axis of indices.  For coordinates outside params the array
\* engine either fails the operation (CPU kernel) or stores 0 (GPU kernel):
\* the value computed here is the one of the kernel that goes on, and
\* gather_outcomes gives the outcomes the operation can have.
gather_nd(params, indices) ==
  LET k == Last(indices.shape)
      outer == Front(indices.shape)
      shape == outer \o Drop(params.shape, k)
  IN  [shape |-> shape,
       at |-> [ix \in Indices(shape) |->
                 LET pos == [c \in 1..k |-> indices.at[Take(ix, Len(outer)) \o <<c - 1>>]]
                              \o Drop(ix, Len(outer))
                 IN  IF pos \in Indices(params.shape) THEN params.at[pos] ELSE 0]]

\* The record of one tf.gather_nd(params, indices): which array was read
\* (name), its shape, and the index tensor.
Gather(name, params, indices) ==
  [params |-> name, shape |-> params.shape, indices |-> indices]

\* Every coordinate tuple of the gather lies inside the array read.
gather_in_bounds(g) ==
  LET k == Last(g.indices.shape)
  IN  \A ix \in Indices(Front(g.indices.shape)) :
        \A c \in 1..k :
          /\ g.indices.at[ix \o <<c - 1>>] >= 0
          /\ g.indices.at[ix \o <<c - 1>>] < g.shape[c]

\* The outcomes an operation that made the gathers gs can have: "ok" when
\* every read is inside its array; otherwise the engine may fail it
\* (InvalidArgumentError) or go on with zeros.
gather_outcomes(gs) ==
  IF \A i \in 1..Len(gs) : gather_in_bounds(gs[i])
  THEN {"ok"}
  ELSE {"ok", "InvalidArgumentError"}

\* tf.cumsum(t, axis) with 0-based axis.
cumsum(t, axis) ==
  [shape |-> t.shape,
   at |-> [ix \in Indices(t.shape) |->
             SumTo([j \in 0..ix[axis + 1] |-> t.at[[ix EXCEPT ![axis + 1] = j]]],
                   ix[axis + 1])]]

\* t[..., lo:hi, ...] along the 0-based axis.
SliceAxis(t, axis, lo, hi) ==
  LET shape == [t.shape EXCEPT ![axis + 1] = Max2(hi - lo, 0)]
  IN  [shape |-> shape,
       at |-> [ix \in Indices(shape) |-> t.at[[ix EXCEPT ![axis + 1] = ix[axis + 1] + lo]]]]

\* ------------------------------------------------ find_interval_index
\* find_interval_index with side='left' in the search (mutation).
find_interval_index_left(query_xs, interval_lower_xs, last_interval_is_closed) ==
  LET indices == subtract(searchsorted(interval_lower_xs, query_xs, "left"), Scalar(1))
  IN  indices

\* find_interval_index with less instead of less_equal in should_cap (mutation).
find_interval_index_less(query_xs, interval_lower_xs, last_interval_is_closed) ==
  LET indices == subtract(searchsorted(interval_lower_xs, query_xs, "right"), Scalar(1))
      last_index == Last(interval_lower_xs.shape) - 1
      should_cap ==
        [shape |-> query_xs.shape,
         at |-> [ix \in Indices(query_xs.shape) |->
                   IF /\ indices.at[ix] = last_index
                      /\ query_xs.at[ix] < interval_lower_xs.at[<<last_index>>]
                   THEN 1 ELSE 0]]
      caps == subtract(Scalar(last_index), should_cap)
  IN  IF last_interval_is_closed THEN minimum(indices, caps) ELSE indices

\* find_interval_index(query_xs, interval_lower_xs, last_interval_is_closed)
\* on rank-1 tensors.
find_interval_index(query_xs, interval_lower_xs, last_interval_is_closed) ==
  LET indices == subtract(searchsorted(interval_lower_xs, query_xs, "right"), Scalar(1))
      last_index == Last(interval_lower_xs.shape) - 1
      last_x == Vec(<<interval_lower_xs.at[<<last_index>>]>>)
      should_cap ==
        [shape |-> query_xs.shape,
         at |-> [ix \in Indices(query_xs.shape) |->
                   IF /\ indices.at[ix] = last_index
                      /\ query_xs.at[ix] <= last_x.at[BroadcastIndex(last_x.shape, ix)]
                   THEN 1 ELSE 0]]
      caps == subtract(Scalar(last_index), should_cap)
  IN  IF last_interval_is_closed THEN minimum(indices, caps) ELSE indices

\* ------------------------------------------------ PiecewiseConstantFunc
\* __init__ comparing the batch ranks only (mutation).
init_raises_rank(jl, vals) ==
  LET rank == Len(Front(jl.shape))
  IN  IF Len(Take(vals.shape, rank)) # rank THEN TRUE
      ELSE vals.shape[rank + 1] - 1 # Last(jl.shape)

\* The shape checks of PiecewiseConstantFunc.__init__ on the argument
\* tensors jl (jump_locations) and vals (values): TRUE iff a ValueError is
\* raised.
init_raises(jl, vals) ==
  LET shape_values == vals.shape
      shape_jump_locations == jl.shape
      rank == Len(Front(shape_jump_locations))
  IN  IF Take(shape_values, rank) # Front(shape_jump_locations) THEN TRUE
      ELSE shape_values[rank + 1] - 1 # Last(shape_jump_locations)

\* _try_broadcast_to raising whenever the batch shapes differ (mutation).
try_broadcast_to_strict(x, batch_shape) ==
  IF Front(x.shape) # batch_shape
  THEN [raised |-> TRUE, x |-> NoTensor, broadcast |-> FALSE]
  ELSE [raised |-> FALSE, x |-> x, broadcast |-> FALSE]

\* _try_broadcast_to(x, batch_shape): raised is TRUE iff the ValueError of
\* line 456 is raised; otherwise x is the tensor returned and broadcast
\* tells whether tf.broadcast_to ran.
try_broadcast_to(x, batch_shape) ==
  LET batch_shape_x == Front(x.shape)
  IN  IF batch_shape_x # batch_shape
      THEN IF ~BroadcastableTo(batch_shape_x, batch_shape)
           THEN [raised |-> TRUE, x |-> NoTensor, broadcast |-> FALSE]
           ELSE [raised |-> FALSE, broadcast |-> TRUE,
                 x |-> broadcast_to(x, batch_shape \o <<Last(x.shape)>>)]
      ELSE [raised |-> FALSE, x |-> x, broadcast |-> FALSE]

\* np.indices(dims): shape [k] + dims, entry [c, i1, ..., ik] = i_(c+1).
np_indices(dims) ==
  LET shape == <<Len(dims)>> \o dims
  IN  [shape |-> shape, at |-> [ix \in Indices(shape) |-> ix[ix[1] + 2]]]

\* np.transpose(t): all axes reversed.
np_transpose(t) ==
  [shape |-> Reverse(t.shape),
   at |-> [ix \in Indices(Reverse(t.shape)) |-> t.at[Reverse(ix)]]]

\* np.flip(t, -1): the last axis reversed.
np_flip_last(t) ==
  [shape |-> t.shape,
   at |-> [ix \in Indices(t.shape) |->
             t.at[Front(ix) \o <<Last(t.shape) - 1 - Last(ix)>>]]]

\* _prepare_index_matrix(batch_shape, num_points, dtype): the tensor of shape
\* batch_shape + [num_points] + [batch_rank] used as the batch coordinates of
\* tf.gather_nd.
prepare_index_matrix(batch_shape, num_points) ==
  LET batch_shape_reverse == Reverse(batch_shape)
      index_matrix == np_flip_last(np_transpose(np_indices(batch_shape_reverse)))
      rank == Len(batch_shape)
      broadcasted_shape == batch_shape \o <<num_points>> \o <<rank>>
  IN  add(expand_dims(index_matrix, Rank(index_matrix) - 1), zeros(broadcasted_shape))

\* _piecewise_constant_function without the final tf.squeeze (mutation).
piecewise_constant_function_nosqueeze(x, jl, vals, rank, side) ==
  LET x_e == IF Take(x.shape, rank) # <<>> THEN x ELSE expand_dims(x, 0)
      jl_e == IF Front(jl.shape) # <<>> THEN jl ELSE expand_dims(jl, 0)
      vals_e == IF Front(jl.shape) # <<>> THEN vals ELSE expand_dims(vals, 0)
      indices == searchsorted(jl_e, x_e, side)
      index_matrix == prepare_index_matrix(Front(indices.shape), Last(indices.shape))
      indices_nd == concat(index_matrix, expand_dims(indices, Rank(indices)),
                           Rank(index_matrix) - 1)
  IN  [raised |-> Take(x.shape, rank) # Front(jl.shape),
       val |-> IF Take(x.shape, rank) # Front(jl.shape) THEN NoTensor
               ELSE gather_nd(vals_e, indices_nd),
       trace |-> IF Take(x.shape, rank) # Front(jl.shape) THEN <<>>
                 ELSE <<"searchsorted", "gather_nd">>,
       gathers |-> IF Take(x.shape, rank) # Front(jl.shape) THEN <<>>
                   ELSE <<Gather("values", vals_e, indices_nd)>>]

\* _piecewise_constant_function gathering with the batch coordinates of the
\* first row for every row (mutation).
piecewise_constant_function_row0(x, jl, vals, rank, side) ==
  LET x_e == IF Take(x.shape, rank) # <<>> THEN x ELSE expand_dims(x, 0)
      jl_e == IF Front(jl.shape) # <<>> THEN jl ELSE expand_dims(jl, 0)
      vals_e == IF Front(jl.shape) # <<>> THEN vals ELSE expand_dims(vals, 0)
      indices == searchsorted(jl_e, x_e, side)
      index_matrix == zeros(indices.shape \o <<Rank(indices) - 1>>)
      indices_nd == concat(index_matrix, expand_dims(indices, Rank(indices)),
                           Rank(index_matrix) - 1)
      res == gather_nd(vals_e, indices_nd)
  IN  [raised |-> Take(x.shape, rank) # Front(jl.shape),
       val |-> IF Take(x.shape, rank) # Front(jl.shape) THEN NoTensor
               ELSE IF Take(x.shape, rank) # <<>> THEN res ELSE squeeze0(res),
       trace |-> IF Take(x.shape, rank) # Front(jl.shape) THEN <<>>
                 ELSE <<"searchsorted", "gather_nd">>,
       gathers |-> IF Take(x.shape, rank) # Front(jl.shape) THEN <<>>
                   ELSE <<Gather("values", vals_e, indices_nd)>>]

\* _piecewise_constant_function(x, jump_locations, values, batch_rank, side):
\* raised is TRUE iff the ValueError of line 301 is raised, val is the tensor
\* returned, trace the array-engine stages gone through.
piecewise_constant_function(x, jl, vals, rank, side) ==
  LET batch_shape == Front(jl.shape)
      batch_shape_x == Take(x.shape, rank)
      no_batch_shape == (Take(x.shape, rank) = <<>>)
      x_e == IF no_batch_shape THEN expand_dims(x, 0) ELSE x
      jl_e == IF batch_shape = <<>> THEN expand_dims(jl, 0) ELSE jl
      vals_e == IF batch_shape = <<>> THEN expand_dims(vals, 0) ELSE vals
      indices == searchsorted(jl_e, x_e, side)
      index_matrix == prepare_index_matrix(Front(indices.shape), Last(indices.shape))
      indices_nd == concat(index_matrix, expand_dims(indices, Rank(indices)),
                           Rank(index_matrix) - 1)
      res == gather_nd(vals_e, indices_nd)
  IN  IF batch_shape_x # batch_shape
      THEN [raised |-> TRUE, val |-> NoTensor, trace |-> <<>>, gathers |-> <<>>]
      ELSE [raised |-> FALSE,
            val |-> IF no_batch_shape THEN squeeze0(res) ELSE res,
            trace |-> <<"searchsorted", "gather_nd">>,
            gathers |-> <<Gather("values", vals_e, indices_nd)>>]

\* __call__ with the sides of the search exchanged (mutation).
call_swapped(x, left_continuous, jl, vals, rank) ==
  LET b == try_broadcast_to(x, Front(jl.shape))
      side == IF left_continuous THEN "right" ELSE "left"
      r == piecewise_constant_function(b.x, jl, vals, rank, side)
  IN  IF b.raised THEN [raised |-> TRUE, val |-> NoTensor, trace |-> <<>>, gathers |-> <<>>]
      ELSE [raised |-> r.raised, val |-> r.val,
            trace |-> (IF b.broadcast THEN <<"broadcast_to">> ELSE <<>>) \o r.trace,
            gathers |-> r.gathers]

\* PiecewiseConstantFunc.__call__(x, left_continuous) on the object with
\* fields jl, vals, rank.
call(x, left_continuous, jl, vals, rank) ==
  LET batch_shape == Front(jl.shape)
      b == try_broadcast_to(x, batch_shape)
      side == IF left_continuous THEN "left" ELSE "right"
      r == piecewise_constant_function(b.x, jl, vals, rank, side)
  IN  IF b.raised THEN [raised |-> TRUE, val |-> NoTensor, trace |-> <<>>, gathers |-> <<>>]
      ELSE [raised |-> r.raised, val |-> r.val,
            trace |-> (IF b.broadcast THEN <<"broadcast_to">> ELSE <<>>) \o r.trace,
            gathers |-> r.gathers]

RECURSIVE ExpandLast(_, _)
\* k times tf.expand_dims(t, -1): the loops "for _ in event_shape".
ExpandLast(t, k) == IF k = 0 THEN t ELSE ExpandLast(expand_dims(t, Rank(t)), k - 1)

\* _get_indices_and_values without the tf.maximum / tf.minimum that keep the
\* anchor index inside jump_locations (mutation).
get_indices_and_values_unclamped(x, index_matrix, jl, vals, side, rank) ==
  LET indices == searchsorted(jl, x, side)
      indices_jump ==
        IF side = "right" THEN subtract(indices, Scalar(1)) ELSE indices
      indices_nd == concat(index_matrix, expand_dims(indices, Rank(indices)),
                           Rank(index_matrix) - 1)
      indices_jump_nd == concat(index_matrix, expand_dims(indices_jump, Rank(indices_jump)),
                                Rank(index_matrix) - 1)
  IN  [value |-> gather_nd(vals, indices_nd),
       jump_location |-> gather_nd(jl, indices_jump_nd),
       indices_jump_nd |-> indices_jump_nd,
       gathers |-> <<Gather("values", vals, indices_nd),
                     Gather("jump_locations", jl, indices_jump_nd)>>]

\* _get_indices_and_values gathering the value at the index of the anchor
\* (mutation).
get_indices_and_values_anchor(x, index_matrix, jl, vals, side, rank) ==
  LET indices == searchsorted(jl, x, side)
      num_data_points == vals.shape[rank + 1] - 2
      indices_jump ==
        IF side = "right"
        THEN maximum(subtract(indices, Scalar(1)), Scalar(0))
        ELSE minimum(indices, Scalar(num_data_points))
      indices_jump_nd == concat(index_matrix, expand_dims(indices_jump, Rank(indices_jump)),
                                Rank(index_matrix) - 1)
  IN  [value |-> gather_nd(vals, indices_jump_nd),
       jump_location |-> gather_nd(jl, indices_jump_nd),
       indices_jump_nd |-> indices_jump_nd,
       gathers |-> <<Gather("values", vals, indices_jump_nd),
                     Gather("jump_locations", jl, indices_jump_nd)>>]

\* _get_indices_and_values(x, index_matrix, jump_locations, values, side,
\* batch_rank): the value of the function at x, the jump location used as
\* the anchor, and the indices of that anchor.
get_indices_and_values(x, index_matrix, jl, vals, side, rank) ==
  LET indices == searchsorted(jl, x, side)
      num_data_points == vals.shape[rank + 1] - 2
      indices_jump ==
        IF side = "right"
        THEN maximum(subtract(indices, Scalar(1)), Scalar(0))
        ELSE minimum(indices, Scalar(num_data_points))
      indices_nd == concat(index_matrix, expand_dims(indices, Rank(indices)),
                           Rank(index_matrix) - 1)
      indices_jump_nd == concat(index_matrix, expand_dims(indices_jump, Rank(indices_jump)),
                                Rank(index_matrix) - 1)
  IN  [value |-> gather_nd(vals, indices_nd),
       jump_location |-> gather_nd(jl, indices_jump_nd),
       indices_jump_nd |-> indices_jump_nd,
       gathers |-> <<Gather("values", vals, indices_nd),
                     Gather("jump_locations", jl, indices_jump_nd)>>]

\* The cumulative integrals without the zero on the left (mutation).
integrals_at_jumps_nopad(jl_e, vals_e, rank_e) ==
  LET event_shape == Drop(vals_e.shape, rank_e + 1)
      num_data_points == vals_e.shape[rank_e + 1]
      num_jumps == Last(jl_e.shape)
      diff == ExpandLast(
                subtract(SliceAxis(jl_e, Rank(jl_e) - 1, 1, num_jumps),
                         SliceAxis(jl_e, Rank(jl_e) - 1, 0, num_jumps - 1)),
                Len(event_shape))
      inner == cumsum(multiply(SliceAxis(vals_e, rank_e, 1, num_data_points - 1), diff),
                      rank_e)
      pad == zeros(Take(inner.shape, rank_e) \o <<1>> \o event_shape)
  IN  concat(concat(inner, pad, rank_e), pad, rank_e)

\* Lines 343-358 of _piecewise_constant_integrate: the integral of the
\* function from the first jump location to each jump location, with a zero
\* on the left and on the right.
integrals_at_jumps(jl_e, vals_e, rank_e) ==
  LET event_shape == Drop(vals_e.shape, rank_e + 1)
      num_data_points == vals_e.shape[rank_e + 1]
      num_jumps == Last(jl_e.shape)
      diff == ExpandLast(
                subtract(SliceAxis(jl_e, Rank(jl_e) - 1, 1, num_jumps),
                         SliceAxis(jl_e, Rank(jl_e) - 1, 0, num_jumps - 1)),
                Len(event_shape))
      inner == cumsum(multiply(SliceAxis(vals_e, rank_e, 1, num_data_points - 1), diff),
                      rank_e)
      batch_shape == Take(inner.shape, rank_e)
      pad == zeros(batch_shape \o <<1>> \o event_shape)
  IN  concat(concat(pad, inner, rank_e), pad, rank_e)

\* _piecewise_constant_integrate(x1, x2, jump_locations, values, batch_rank):
\* val is the tensor returned, gathers the reads made, in the order of the
\* code (x1's value and anchor, x2's value and anchor, then the cumulative
\* integrals at x1's and at x2's anchor).
piecewise_constant_integrate(x1, x2, jl, vals, rank) ==
  LET no_batch_shape == (Take(x1.shape, rank) = <<>>)
      x1_e == IF no_batch_shape THEN expand_dims(x1, 0) ELSE x1
      x2_e == IF no_batch_shape THEN expand_dims(x2, 0) ELSE x2
      no_fn_batch == (Front(jl.shape) = <<>>)
      jl_e == IF no_fn_batch THEN expand_dims(jl, 0) ELSE jl
      vals_e == IF no_fn_batch THEN expand_dims(vals, 0) ELSE vals
      rank_e == IF no_fn_batch THEN rank + 1 ELSE rank
      index_matrix == prepare_index_matrix(Front(x1_e.shape), Last(x1_e.shape))
      event_shape == Drop(vals_e.shape, rank_e + 1)
      integrals == integrals_at_jumps(jl_e, vals_e, rank_e)
      left == get_indices_and_values(x1_e, index_matrix, jl_e, vals_e, "left", rank_e)
      right == get_indices_and_values(x2_e, index_matrix, jl_e, vals_e, "right", rank_e)
      integrals1 == gather_nd(integrals, left.indices_jump_nd)
      integrals2 == gather_nd(integrals, right.indices_jump_nd)
      x1_b == ExpandLast(x1_e, Len(event_shape))
      x2_b == ExpandLast(x2_e, Len(event_shape))
      jump_location1 == ExpandLast(left.jump_location, Len(event_shape))
      jump_location2 == ExpandLast(right.jump_location, Len(event_shape))
      res == subtract(
               add(add(multiply(subtract(jump_location1, x1_b), left.value),
                       multiply(subtract(x2_b, jump_location2), right.value)),
                   integrals2),
               integrals1)
  IN  [val |-> IF no_batch_shape THEN squeeze0(res) ELSE res,
       gathers |-> left.gathers \o right.gathers
                   \o <<Gather("integrals", integrals, left.indices_jump_nd),
                        Gather("integrals", integrals, right.indices_jump_nd)>>]

\* integrate on the endpoints put in increasing order (mutation).
integrate_ordered(x1, x2, jl, vals, rank) ==
  LET batch_shape == Front(jl.shape)
      b1 == try_broadcast_to(minimum(x1, x2), batch_shape)
      b2 == try_broadcast_to(maximum(x1, x2), batch_shape)
      r == piecewise_constant_integrate(b1.x, b2.x, jl, vals, rank)
  IN  IF b1.raised \/ b2.raised
      THEN [raised |-> TRUE, val |-> NoTensor, trace |-> <<>>, gathers |-> <<>>]
      ELSE [raised |-> FALSE,
            val |-> r.val,
            trace |-> (IF b1.broadcast \/ b2.broadcast THEN <<"broadcast_to">> ELSE <<>>)
                      \o <<"cumsum", "searchsorted", "gather_nd", "arithmetic">>,
            gathers |-> r.gathers]

\* PiecewiseConstantFunc.integrate(x1, x2) on the object with fields jl,
\* vals, rank.
integrate(x1, x2, jl, vals, rank) ==
  LET batch_shape == Front(jl.shape)
      b1 == try_broadcast_to(x1, batch_shape)
      b2 == try_broadcast_to(x2, batch_shape)
      r == piecewise_constant_integrate(b1.x, b2.x, jl, vals, rank)
  IN  IF b1.raised \/ b2.raised
      THEN [raised |-> TRUE, val |-> NoTensor, trace |-> <<>>, gathers |-> <<>>]
      ELSE [raised |-> FALSE,
            val |-> r.val,
            trace |-> (IF b1.broadcast \/ b2.broadcast THEN <<"broadcast_to">> ELSE <<>>)
                      \o <<"cumsum", "searchsorted", "gather_nd", "arithmetic">>,
            gathers |-> r.gathers]

\* ------------------------------------------------------------ inputs
MaxX == 2 * MaxN + 1
Pts == 1..MaxX
JumpPts == {2 * i : i \in 1..MaxN}

\* Non-decreasing sequences of n elements of S.
SortedSeqs(S, n) == {s \in [1..n -> S] : \A i \in 1..(n - 1) : s[i] <= s[i + 1]}

\* Boundary sequences and queries handed to find_interval_index; the second
\* pair is the documented example with its coordinates multiplied by 20.
FindBoundaries == UNION {SortedSeqs(JumpPts, n) : n \in 1..(MaxN + 1)}
FindQueries == {<<q>> : q \in Pts} \cup {<<q1, q2>> : q1 \in {1, MaxX}, q2 \in Pts}
ExampleBoundaries == <<5, 10, 20, 40, 60>>
ExampleQueries == <<5, 60, 100, 0, 10, 16>>
FindInputs ==
  (FindBoundaries \X FindQueries) \cup {<<ExampleBoundaries, ExampleQueries>>}

RECURSIVE Lin(_, _)
\* The row-major position of index tuple ix in a tensor of the given shape.
Lin(shape, ix) ==
  IF shape = <<>> THEN 0
  ELSE Lin(Front(shape), Front(ix)) * Last(shape) + Last(ix)

\* Argument tensors are built from one row of numbers: batch row r of the
\* jump locations is the row moved right by r, batch row r of a query is the
\* row moved right by 2r, and the values of batch row r, event element e
\* are the row plus 10r + 100e, so that every row and every event element
\* holds different numbers.
JumpTensor(S, row) ==
  [shape |-> S \o <<Len(row)>>,
   at |-> [ix \in Indices(S \o <<Len(row)>>) |-> row[Last(ix) + 1] + Lin(S, Front(ix))]]

ValueTensor(S, E, row) ==
  [shape |-> S \o <<Len(row)>> \o E,
   at |-> [ix \in Indices(S \o <<Len(row)>> \o E) |->
             row[ix[Len(S) + 1] + 1] + 10 * Lin(S, Take(ix, Len(S)))
               + 100 * Lin(E, Drop(ix, Len(S) + 1))]]

QueryTensor(Q, row) ==
  [shape |-> Q \o <<Len(row)>>,
   at |-> [ix \in Indices(Q \o <<Len(row)>>) |-> row[Last(ix) + 1] + 2 * Lin(Q, Front(ix))]]

\* Rows of jump locations and of values.  The code is linear in the values,
\* so the rows that raise one segment above the others decide every
\* equality between two of its results.
JumpRows == UNION {SortedSeqs(JumpPts, n) : n \in 1..MaxN}
ValueRows(n) == {[i \in 1..(n + 1) |-> IF i = j THEN 2 ELSE 1] : j \in 1..(n + 1)}

\* Batch shape and event shape of the functions constructed.
FnShapes == {<< <<>>, <<>> >>, << <<1>>, <<>> >>, << <<2>>, <<>> >>,
             << <<1, 2>>, <<>> >>, << <<>>, <<2>> >>, << <<2>>, <<2>> >>}

\* Batch shapes of the queries.
QueryShapes == {<<>>, <<1>>, <<2>>, <<3>>, <<1, 2>>, <<2, 1>>}

\* The documented example, coordinates multiplied by 10:
\* jump_locations = [0.1, 10], values = [3, 4, 5], x = [0, 0.1, 2, 11].
ExampleJumps == <<1, 100>>
ExampleValues == <<3, 4, 5>>
ExampleX == <<0, 1, 20, 110>>
ExampleX2 == <<10, 11, 30, 120>>

\* Arguments of the constructor: well-shaped ones, ones whose values have
\* another batch shape than the jump locations, and ones whose values have
\* not one more segment than there are jump locations.
GoodConstructInputs ==
  UNION {{<<JumpTensor(se[1], j), ValueTensor(se[1], se[2], v)>> :
            v \in ValueRows(Len(j))} : se \in FnShapes, j \in JumpRows}
    \cup {<<Vec(ExampleJumps), Vec(ExampleValues)>>}

BadBatchPairs == {<< <<2>>, <<3>> >>, << <<2>>, <<1>> >>, << <<1>>, <<2>> >>,
                  << <<3>>, <<2>> >>, << <<1, 2>>, <<2, 1>> >>, << <<1, 2>>, <<1, 3>> >>}

BadConstructInputs ==
  UNION {{<<JumpTensor(pr[1], j), ValueTensor(pr[2], E, v)>> :
            v \in ValueRows(Len(j))} :
           pr \in BadBatchPairs, j \in SortedSeqs(JumpPts, 1), E \in {<<>>, <<2>>}}
    \cup UNION {{<<JumpTensor(S, j), ValueTensor(S, <<>>, v)>> :
                   v \in ValueRows(Len(j) - 1) \cup ValueRows(Len(j) + 1)} :
                  S \in {<<>>, <<2>>}, j \in SortedSeqs(JumpPts, 1)}

ConstructInputs == GoodConstructInputs \cup BadConstructInputs

\* Query rows of evaluation: every single point, and the documented example.
CallRows == {<<p>> : p \in Pts} \cup {ExampleX}

\* Pairs of endpoint rows of integration: the grid of all pairs (a, b) of
\* points, in both orders, and the documented example.
GridX1 == [l \in 1..(MaxX * MaxX) |-> ((l - 1) \div MaxX) + 1]
GridX2 == [l \in 1..(MaxX * MaxX) |-> ((l - 1) % MaxX) + 1]
IntegrateRows == {<<GridX1, GridX2>>, <<ExampleX, ExampleX2>>}

\* Rows sent with every query batch shape, whether or not it can be
\* broadcast to the function's batch shape.
ProbeRows == {<<1>>, <<3, 2>>}
ProbePairs == {<< <<1>>, <<1>> >>, << <<3, 2>>, <<3, 2>> >>, << <<1, 4, 3>>, <<5, 2, 3>> >>}

\* The queries of evaluation for a function of batch shape S: every row
\* with the function's own batch shape and with none, the probe rows with
\* every batch shape.
CallInputs(S) ==
  {QueryTensor(Q, r) : Q \in {S, <<>>}, r \in CallRows}
    \cup {QueryTensor(Q, r) : Q \in QueryShapes, r \in ProbeRows}

\* The endpoint pairs of integration for a function of batch shape S.
IntegrateInputs(S) ==
  {<<QueryTensor(S, r[1]), QueryTensor(S, r[2])>> : r \in IntegrateRows}
    \cup {<<QueryTensor(Q, r[1]), QueryTensor(Q, r[2])>> : Q \in QueryShapes, r \in ProbePairs}

\* ----------------------------------------------------------- actions
Init ==
  /\ jump_locations = NoTensor
  /\ values = NoTensor
  /\ batch_rank = 0
  /\ op = [name |-> "none"]
  /\ outcome = "none"
  /\ result = NoTensor
  /\ trace = <<>>
  /\ gathers = <<>>

\* A call of find_interval_index by a caller holding no earlier result.
FindIntervalIndex ==
  /\ op.name = "none"
  /\ \E in \in FindInputs, closed \in BOOLEAN :
       /\ op' = [name |-> "find_interval_index", interval_lower_xs |-> Vec(in[1]),
                 query_xs |-> Vec(in[2]), last_interval_is_closed |-> closed]
       /\ result' = find_interval_index(Vec(in[2]), Vec(in[1]), closed)
       /\ outcome' = "ok"
       /\ trace' = <<"searchsorted", "gather", "minimum">>
       /\ gathers' = <<>>
  /\ UNCHANGED <<jump_locations, values, batch_rank>>

\* The caller takes the result (or the error) of the last operation; the
\* object, if one was constructed, is left as it is.
Return ==
  /\ op.name # "none"
  /\ op' = [name |-> "none"]
  /\ outcome' = "none"
  /\ result' = NoTensor
  /\ trace' = <<>>
  /\ gathers' = <<>>
  /\ UNCHANGED <<jump_locations, values, batch_rank>>

NextFind == FindIntervalIndex \/ Return

SpecFind == Init /\ [][NextFind]_vars

\* PiecewiseConstantFunc(jump_locations, values): the object is constructed
\* once; a ValueError leaves no object.
Construct ==
  /\ op.name = "none"
  /\ jump_locations = NoTensor
  /\ \E in \in ConstructInputs :
       /\ op' = [name |-> "init", jump_locations |-> in[1], values |-> in[2]]
       /\ IF init_raises(in[1], in[2])
          THEN /\ outcome' = "ValueError"
               /\ UNCHANGED <<jump_locations, values, batch_rank>>
          ELSE /\ outcome' = "ok"
               /\ jump_locations' = in[1]
               /\ values' = in[2]
               /\ batch_rank' = Len(Front(in[1].shape))
  /\ result' = NoTensor
  /\ trace' = <<>>
  /\ gathers' = <<>>

\* piecewise_func(x, left_continuous) on the constructed object.
\* r is what the call computes; an out-of-range gather, if there were one,
\* leaves the outcome to the array engine (gather_outcomes).
Call ==
  /\ op.name = "none"
  /\ jump_locations # NoTensor
  /\ \E x \in CallInputs(Front(jump_locations.shape)), left_continuous \in BOOLEAN :
       \E r \in {call(x, left_continuous, jump_locations, values, batch_rank)} :
           /\ op' = [name |-> "call", x |-> x, left_continuous |-> left_continuous]
           /\ \E o \in (IF r.raised THEN {"ValueError"} ELSE gather_outcomes(r.gathers)) :
                /\ outcome' = o
                /\ result' = IF o = "ok" THEN r.val ELSE NoTensor
           /\ trace' = r.trace
           /\ gathers' = r.gathers
  /\ UNCHANGED <<jump_locations, values, batch_rank>>

\* piecewise_func.integrate(x1, x2) on the constructed object.
Integrate ==
  /\ op.name = "none"
  /\ jump_locations # NoTensor
  /\ \E in \in IntegrateInputs(Front(jump_locations.shape)) :
       \E r \in {integrate(in[1], in[2], jump_locations, values, batch_rank)} :
           /\ op' = [name |-> "integrate", x1 |-> in[1], x2 |-> in[2]]
           /\ \E o \in (IF r.raised THEN {"ValueError"} ELSE gather_outcomes(r.gathers)) :
                /\ outcome' = o
                /\ result' = IF o = "ok" THEN r.val ELSE NoTensor
           /\ trace' = r.trace
           /\ gathers' = r.gathers
  /\ UNCHANGED <<jump_locations, values, batch_rank>>

Next == Construct \/ Call \/ Integrate \/ Return

Spec == Init /\ [][Next]_vars

\* ------------------------------------------------------------ claims
\* The half-open interval index the contract gives for boundaries b (a
\* sequence) and query q: -1 below b[1], the 0-based i with
\* b[i] <= q < b[i+1], and Len(b)-1 from the last boundary on.
HalfOpenIndex(b, q) ==
  CHOOSE r \in (-1)..(Len(b) - 1) :
    \/ r = -1 /\ q < b[1]
    \/ r >= 0 /\ b[r + 1] <= q /\ (r = Len(b) - 1 \/ q < b[r + 2])

FindDone(closed) ==
  /\ op.name = "find_interval_index"
  /\ op.last_interval_is_closed = closed

\* C1: with last_interval_is_closed = false the result has the shape of the
\* query and, for every query q, is -1 if q < b[0], i if b[i] <= q < b[i+1],
\* n-1 if q >= b[n-1] (so it lies in [-1, n-1]); the documented example
\* gives [0, 4, 4, -1, 1, 1].
C1_HalfOpenIndex ==
  FindDone(FALSE) =>
    LET b == Row(op.interval_lower_xs)
        n == Len(b)
    IN  /\ result.shape = op.query_xs.shape
        /\ \A ix \in Indices(op.query_xs.shape) :
             LET q == op.query_xs.at[ix]
                 r == result.at[ix]
             IN  /\ r \in (-1)..(n - 1)
                 /\ q < b[1] => r = -1
                 /\ \A i \in 0..(n - 2) : (b[i + 1] <= q /\ q < b[i + 2]) => r = i
                 /\ q >= b[n] => r = n - 1
        /\ (b = ExampleBoundaries /\ Row(op.query_xs) = ExampleQueries)
             => Row(result) = <<0, 4, 4, -1, 1, 1>>

\* C1 witness: the documented example was searched (queries below, on, between
\* and above the boundaries) and gave [0, 4, 4, -1, 1, 1].
C1_Witness ==
  /\ FindDone(FALSE)
  /\ Row(op.interval_lower_xs) = ExampleBoundaries
  /\ Row(op.query_xs) = ExampleQueries
  /\ Row(result) = <<0, 4, 4, -1, 1, 1>>

\* C2: with last_interval_is_closed = true and n >= 2 boundaries the result
\* differs from the half-open result only for q = b[n-1], where it is n-2;
\* q > b[n-1] gives n-1 and every q in [b[n-2], b[n-1]] gives n-2.
C2_ClosedLastInterval ==
  (FindDone(TRUE) /\ Last(op.interval_lower_xs.shape) >= 2) =>
    LET b == Row(op.interval_lower_xs)
        n == Len(b)
    IN  /\ result.shape = op.query_xs.shape
        /\ \A ix \in Indices(op.query_xs.shape) :
             LET q == op.query_xs.at[ix]
                 r == result.at[ix]
             IN  /\ r = (IF q = b[n] THEN n - 2 ELSE HalfOpenIndex(b, q))
                 /\ q > b[n] => r = n - 1
                 /\ (b[n - 1] <= q /\ q <= b[n]) => r = n - 2

\* C2 witness: a closed-last-interval search of at least two boundaries whose
\* queries hit the final boundary (n-2) and a point beyond it (n-1).
C2_Witness ==
  /\ FindDone(TRUE)
  /\ Last(op.interval_lower_xs.shape) >= 2
  /\ \E ix \in Indices(op.query_xs.shape) :
       /\ op.query_xs.at[ix] = op.interval_lower_xs.at[<<Last(op.interval_lower_xs.shape) - 1>>]
       /\ result.at[ix] = Last(op.interval_lower_xs.shape) - 2
  /\ \E ix \in Indices(op.query_xs.shape) :
       /\ op.query_xs.at[ix] > op.interval_lower_xs.at[<<Last(op.interval_lower_xs.shape) - 1>>]
       /\ result.at[ix] = Last(op.interval_lower_xs.shape) - 1

\* ---- the constructed function, as the claims speak of it
FnBatchShape == Front(jump_locations.shape)
FnEventShape == Drop(values.shape, Len(FnBatchShape) + 1)
NumJumps == Last(jump_locations.shape)

\* The jump locations of batch row b, as a sequence b[1..n].
JumpsOf(b) == [i \in 1..NumJumps |-> jump_locations.at[b \o <<i - 1>>]]

\* The value of segment k (0-based) of batch row b, event element e.
ValueOf(b, k, e) == values.at[b \o <<k>> \o e]

\* The element of the query x (as the caller supplied it) that NumPy
\* broadcasting pairs with position l of batch row b.
QueryAt(x, b, l) == x.at[BroadcastIndex(x.shape, b \o <<l>>)]

\* The number of elements of the sequence J that are < q, and <= q.
CountBelow(J, q) == Cardinality({i \in 1..Len(J) : J[i] < q})
CountUpTo(J, q) == Cardinality({i \in 1..Len(J) : J[i] <= q})

CallDone == op.name = "call" /\ outcome = "ok"
IntegrateDone == op.name = "integrate" /\ outcome = "ok"

\* The result has the function's batch shape, the query's number of points
\* and the function's event shape.
ResultShaped(x) == result.shape = FnBatchShape \o <<Last(x.shape)>> \o FnEventShape

\* C3: for every query x that is no jump location of its batch row,
\* evaluation returns values[k], k the number of jump locations strictly
\* less than x, whatever left_continuous is; per batch row and per
\* event-shape element.
C3_SegmentValue ==
  CallDone =>
    /\ ResultShaped(op.x)
    /\ \A b \in Indices(FnBatchShape), l \in 0..(Last(op.x.shape) - 1) :
         \A J \in {JumpsOf(b)}, q \in {QueryAt(op.x, b, l)} :
           (\A i \in 1..Len(J) : J[i] # q) =>
             \A e \in Indices(FnEventShape) :
               result.at[b \o <<l>> \o e] = ValueOf(b, CountBelow(J, q), e)

\* C3 witness: a right-continuous evaluation of a batched, vector-valued
\* function at a point strictly between two jump locations of the second
\* batch row returned the value of the segment between them.
C3_Witness ==
  /\ CallDone
  /\ ~op.left_continuous
  /\ FnBatchShape = <<2>> /\ FnEventShape = <<2>> /\ NumJumps = 2
  /\ ResultShaped(op.x)
  /\ \E l \in 0..(Last(op.x.shape) - 1) :
       /\ JumpsOf(<<1>>)[1] < QueryAt(op.x, <<1>>, l)
       /\ QueryAt(op.x, <<1>>, l) < JumpsOf(<<1>>)[2]
       /\ result.at[<<1, l, 1>>] = ValueOf(<<1>>, 1, <<1>>)
       /\ ValueOf(<<1>>, 1, <<1>>) # ValueOf(<<0>>, 1, <<1>>)

\* C4 as stated: at every jump boundary b[i] of a function with
\* non-decreasing jump locations, left-continuous evaluation returns
\* values[i] and right-continuous evaluation values[i+1].
C4_DualityAsStated ==
  CallDone =>
    /\ ResultShaped(op.x)
    /\ \A b \in Indices(FnBatchShape), l \in 0..(Last(op.x.shape) - 1) :
         \A J \in {JumpsOf(b)}, q \in {QueryAt(op.x, b, l)} :
           \A i \in 0..(Len(J) - 1) :
             J[i + 1] = q =>
               \A e \in Indices(FnEventShape) :
                 result.at[b \o <<l>> \o e]
                   = ValueOf(b, IF op.left_continuous THEN i ELSE i + 1, e)

\* C4 amended: at every jump boundary b[i] that no other jump location of
\* its batch row equals, left-continuous evaluation returns values[i] and
\* right-continuous evaluation values[i+1].
C4_Duality ==
  CallDone =>
    /\ ResultShaped(op.x)
    /\ \A b \in Indices(FnBatchShape), l \in 0..(Last(op.x.shape) - 1) :
         \A J \in {JumpsOf(b)}, q \in {QueryAt(op.x, b, l)} :
           \A i \in 0..(Len(J) - 1) :
             (J[i + 1] = q /\ \A j \in 0..(Len(J) - 1) : j # i => J[j + 1] # q) =>
               \A e \in Indices(FnEventShape) :
                 result.at[b \o <<l>> \o e]
                   = ValueOf(b, IF op.left_continuous THEN i ELSE i + 1, e)

\* C4 witness: a right-continuous evaluation exactly at the first of two
\* distinct jump locations returned values[1], which differs from values[0].
C4_Witness ==
  /\ CallDone
  /\ ~op.left_continuous
  /\ FnBatchShape = <<>> /\ FnEventShape = <<>> /\ NumJumps = 2
  /\ JumpsOf(<<>>)[1] < JumpsOf(<<>>)[2]
  /\ op.x.shape = <<1>>
  /\ op.x.at[<<0>>] = JumpsOf(<<>>)[1]
  /\ result.at[<<0>>] = ValueOf(<<>>, 1, <<>>)
  /\ ValueOf(<<>>, 1, <<>>) # ValueOf(<<>>, 0, <<>>)

\* The definite integral of the function of batch row b, event element e,
\* over [a, c] with a <= c: the sum over the segments 0..n of the segment's
\* value times the length of its overlap with [a, c].  Segment i reaches
\* from jump i to jump i+1 (J[i] to J[i+1] below), the first from -infinity
\* and the last to +infinity.
ExactIntegral(b, e, J, a, c) ==
  SumTo([i \in 0..Len(J) |->
           ValueOf(b, i, e)
             * Max2(0, (IF i = Len(J) THEN c ELSE Min2(c, J[i + 1]))
                         - (IF i = 0 THEN a ELSE Max2(a, J[i])))],
        Len(J))

\* The endpoints that broadcasting pairs with batch row b, and the results of
\* batch row b and event element e, as sequences over the positions 1..m.
EndpointsOf(x, b) == [l \in 1..Last(x.shape) |-> QueryAt(x, b, l - 1)]
ResultsOf(b, e) == [l \in 1..result.shape[Len(b) + 1] |-> result.at[b \o <<l - 1>> \o e]]

\* C5: for endpoints x1 <= x2 anywhere on the line, integrate(x1, x2) is the
\* exact definite integral, the sum over the segments of value times overlap
\* with [x1, x2]; the documented example gives [3.9, 4, 4, 5] (here times
\* 10: coordinates are multiplied by 10).
C5_IntegrationExact ==
  IntegrateDone =>
    /\ ResultShaped(op.x1)
    /\ \A b \in Indices(FnBatchShape) :
         \A J \in {JumpsOf(b)}, X1 \in {EndpointsOf(op.x1, b)}, X2 \in {EndpointsOf(op.x2, b)} :
           \A l \in 1..Len(X1), e \in Indices(FnEventShape) :
             X1[l] <= X2[l] =>
               result.at[b \o <<l - 1>> \o e] = ExactIntegral(b, e, J, X1[l], X2[l])
    /\ (/\ jump_locations = Vec(ExampleJumps) /\ values = Vec(ExampleValues)
        /\ op.x1 = Vec(ExampleX) /\ op.x2 = Vec(ExampleX2))
         => Row(result) = <<39, 40, 40, 50>>

\* C5 witness: an integration of a function with two distinct jump locations
\* from below the first to above the second, and one between two points of
\* the middle segment, gave the exact integrals.
C5_Witness ==
  /\ IntegrateDone
  /\ FnBatchShape = <<>> /\ FnEventShape = <<>> /\ NumJumps = 2
  /\ JumpsOf(<<>>) = <<2, 4>>
  /\ values = Vec(<<1, 2, 1>>)
  /\ \E l \in 0..(Last(op.x1.shape) - 1) :
       op.x1.at[<<l>>] = 1 /\ op.x2.at[<<l>>] = 5 /\ result.at[<<l>>] = 6
  /\ \E l \in 0..(Last(op.x1.shape) - 1) :
       op.x1.at[<<l>>] = 2 /\ op.x2.at[<<l>>] = 3 /\ result.at[<<l>>] = 2

\* C6: for any three points a <= b <= c of one integration,
\* integrate(a, b) + integrate(b, c) = integrate(a, c).
C6_Additivity ==
  IntegrateDone =>
    /\ ResultShaped(op.x1)
    /\ \A b \in Indices(FnBatchShape), e \in Indices(FnEventShape) :
         \A X1 \in {EndpointsOf(op.x1, b)}, X2 \in {EndpointsOf(op.x2, b)},
            R \in {ResultsOf(b, e)} :
           \A l1 \in 1..Len(X1), l2 \in 1..Len(X1) :
             (X1[l1] <= X2[l1] /\ X2[l1] = X1[l2] /\ X1[l2] <= X2[l2]) =>
               \A l3 \in 1..Len(X1) :
                 (X1[l3] = X1[l1] /\ X2[l3] = X2[l2]) => R[l1] + R[l2] = R[l3]

\* C6 witness: one integration held the pairs (1, 2), (2, 5) and (1, 5),
\* the middle point on a jump location, with non-zero integrals that add up.
C6_Witness ==
  /\ IntegrateDone
  /\ FnBatchShape = <<>> /\ FnEventShape = <<>>
  /\ JumpsOf(<<>>)[1] = 2
  /\ \E l1, l2, l3 \in 1..Last(op.x1.shape) :
       /\ op.x1.at[<<l1 - 1>>] = 1 /\ op.x2.at[<<l1 - 1>>] = 2
       /\ op.x1.at[<<l2 - 1>>] = 2 /\ op.x2.at[<<l2 - 1>>] = 5
       /\ op.x1.at[<<l3 - 1>>] = 1 /\ op.x2.at[<<l3 - 1>>] = 5
       /\ result.at[<<l1 - 1>>] > 0 /\ result.at[<<l2 - 1>>] > 0
       /\ result.at[<<l1 - 1>>] + result.at[<<l2 - 1>>] = result.at[<<l3 - 1>>]

\* C10: for any two points a, b in any order, integrate(a, b) =
\* -integrate(b, a); in particular integrate(a, a) = 0.
C10_SignedIntegral ==
  IntegrateDone =>
    /\ ResultShaped(op.x1)
    /\ \A b \in Indices(FnBatchShape), e \in Indices(FnEventShape) :
         \A X1 \in {EndpointsOf(op.x1, b)}, X2 \in {EndpointsOf(op.x2, b)},
            R \in {ResultsOf(b, e)} :
           \A l1 \in 1..Len(X1) :
             /\ X1[l1] = X2[l1] => R[l1] = 0
             /\ \A l2 \in 1..Len(X1) :
                  (X1[l2] = X2[l1] /\ X2[l2] = X1[l1]) => R[l1] = 0 - R[l2]

\* C10 witness: one integration held the pair (5, 1), across both jump
\* locations from above to below, and the pair (1, 5), with opposite
\* non-zero integrals.
C10_Witness ==
  /\ IntegrateDone
  /\ FnBatchShape = <<>> /\ FnEventShape = <<>> /\ NumJumps = 2
  /\ \E l1, l2 \in 1..Last(op.x1.shape) :
       /\ op.x1.at[<<l1 - 1>>] = 5 /\ op.x2.at[<<l1 - 1>>] = 1
       /\ op.x1.at[<<l2 - 1>>] = 1 /\ op.x2.at[<<l2 - 1>>] = 5
       /\ result.at[<<l1 - 1>>] < 0
       /\ result.at[<<l1 - 1>>] = 0 - result.at[<<l2 - 1>>]

\* ---- batch shapes, as the claims speak of them
\* Dimension i, counted from the right, of shape s.
DimFromRight(s, i) == s[Len(s) + 1 - i]

\* Q cannot be broadcast to S: Q has more axes, or some dimension of Q
\* differs from the aligned dimension of S and is not 1.
NotBroadcastableTo(Q, S) ==
  \/ Len(Q) > Len(S)
  \/ \E i \in 1..Len(Q) :
       DimFromRight(Q, i) # DimFromRight(S, i) /\ DimFromRight(Q, i) # 1

\* Q and S are broadcast-compatible under NumPy's rules: aligned from the
\* right, each pair of dimensions is equal or one of them is 1.
BroadcastCompatible(Q, S) ==
  \A i \in 1..Min2(Len(Q), Len(S)) :
    \/ DimFromRight(Q, i) = DimFromRight(S, i)
    \/ DimFromRight(Q, i) = 1
    \/ DimFromRight(S, i) = 1

\* The operation ended in an error before any array-engine stage ran and
\* returned no tensor.
FailedEarly == outcome = "ValueError" /\ result = NoTensor /\ trace = <<>>

\* C7: constructing with a values batch-shape prefix that differs from the
\* batch shape of jump_locations, or evaluating / integrating with a query
\* whose batch-shape prefix cannot be broadcast to the function's batch
\* shape, ends in an error raised before any search, gather or arithmetic,
\* with no result (and, for the constructor, no object).
C7_BroadcastFailure ==
  /\ (/\ op.name = "init"
      /\ Take(op.values.shape, Len(op.jump_locations.shape) - 1)
           # Front(op.jump_locations.shape))
       => (FailedEarly /\ jump_locations = NoTensor /\ values = NoTensor)
  /\ (op.name = "call" /\ NotBroadcastableTo(Front(op.x.shape), FnBatchShape))
       => FailedEarly
  /\ (/\ op.name = "integrate"
      /\ \/ NotBroadcastableTo(Front(op.x1.shape), FnBatchShape)
         \/ NotBroadcastableTo(Front(op.x2.shape), FnBatchShape))
       => FailedEarly

\* C7 witness: an evaluation of a function of batch shape [2] with a query
\* of batch shape [3] ended in the error.
C7_Witness ==
  /\ op.name = "call"
  /\ FnBatchShape = <<2>>
  /\ Front(op.x.shape) = <<3>>
  /\ FailedEarly

\* C8 as stated: evaluate(x) and integrate(x, x) complete without an error
\* whenever the query's batch-shape prefix is broadcast-compatible with the
\* function's batch shape.
C8_CompatibleAsStated ==
  /\ (op.name = "call" /\ BroadcastCompatible(Front(op.x.shape), FnBatchShape))
       => outcome = "ok"
  /\ (/\ op.name = "integrate" /\ op.x1 = op.x2
      /\ BroadcastCompatible(Front(op.x1.shape), FnBatchShape))
       => outcome = "ok"

\* C8 amended: evaluate(x) and integrate(x, x) complete without an error
\* whenever the query's batch-shape prefix can be broadcast to the
\* function's batch shape (no more axes than it, each dimension equal to the
\* aligned one or 1); the prefix need not be identical to the batch shape.
C8_BroadcastableQueries ==
  /\ (op.name = "call" /\ ~NotBroadcastableTo(Front(op.x.shape), FnBatchShape))
       => (outcome = "ok" /\ result # NoTensor)
  /\ (/\ op.name = "integrate" /\ op.x1 = op.x2
      /\ ~NotBroadcastableTo(Front(op.x1.shape), FnBatchShape))
       => (outcome = "ok" /\ result # NoTensor)

\* C8 witness: an evaluation of a function of batch shape [2] with a query
\* of batch shape [1] completed.
C8_Witness ==
  /\ op.name = "call"
  /\ FnBatchShape = <<2>>
  /\ Front(op.x.shape) = <<1>>
  /\ outcome = "ok"
  /\ "broadcast_to" = Head(trace)

\* C9 as stated: a successful evaluation returns shape Q + [m] + E, Q the
\* batch-shape prefix of the query as the caller supplied it.
C9_QueryShapeAsStated ==
  CallDone => result.shape = op.x.shape \o FnEventShape

\* C9 amended: a successful evaluation returns shape S + [m] + E, S the
\* batch shape of the function, to which the query was broadcast; this is
\* Q + [m] + E when the query's prefix Q is S (a query of shape [m] on a
\* function with no batch shape gives [m] + E).
C9_ResultShape ==
  CallDone =>
    /\ result.shape = FnBatchShape \o <<Last(op.x.shape)>> \o FnEventShape
    /\ Front(op.x.shape) = FnBatchShape => result.shape = op.x.shape \o FnEventShape

\* C9 witness: an evaluation of a vector-valued function without batch shape
\* at a query of shape [1] returned shape [1, 2].
C9_Witness ==
  /\ CallDone
  /\ FnBatchShape = <<>> /\ FnEventShape = <<2>>
  /\ op.x.shape = <<1>>
  /\ result.shape = <<1, 2>>

\* ---- the gathers of evaluation and integration
\* An evaluation or an integration that got past the shape checks.
GatherDone == op.name \in {"call", "integrate"} /\ outcome # "ValueError"

\* The position, in the index tensor of a gather, of point l of batch row b:
\* a function without batch shape is gathered as a batch of one row.
GatherPos(b, l) == (IF FnBatchShape = <<>> THEN <<0>> ELSE b) \o <<l>>

\* The index along the segment axis that gather g uses for point l of batch
\* row b (the last coordinate of its index tuple).
SegmentIndexOf(g, b, l) == g.indices.at[GatherPos(b, l) \o <<Last(g.indices.shape) - 1>>]

\* The length of the segment axis of the array that gather g reads.
SegmentAxisLen(g) == g.shape[Last(g.indices.shape)]

\* C11: every gather of evaluate and integrate is in bounds.  For a function
\* with n >= 1 jump locations and every query point, the operation ends
\* without an out-of-range read; the segment index read from values (n+1
\* segments) lies in [0, n]; in integrate the anchor index read from
\* jump_locations (length n) and from the zero-padded cumulative integrals
\* (length n+1) lies in [0, n-1], being the left-search index capped at n-1
\* for x1 and the right-search index minus one floored at 0 for x2, so the
\* trailing zero at index n of the cumulative integrals is never read.
C11_GathersInBounds ==
  GatherDone =>
    /\ outcome = "ok"
    /\ NumJumps >= 1
    /\ Len(gathers) = (IF op.name = "call" THEN 1 ELSE 6)
    /\ \A i \in 1..Len(gathers) : gather_in_bounds(gathers[i])
    /\ \A i \in 1..Len(gathers) :
         \A g \in {gathers[i]}, n \in {NumJumps} :
           /\ g.params = "values" => SegmentAxisLen(g) = n + 1
           /\ g.params = "jump_locations" => SegmentAxisLen(g) = n
           /\ g.params = "integrals" => SegmentAxisLen(g) = n + 1
           /\ Front(g.indices.shape) =
                (IF FnBatchShape = <<>> THEN <<1>> ELSE FnBatchShape)
                  \o <<Last((IF op.name = "call" THEN op.x ELSE op.x1).shape)>>
           /\ \A b \in Indices(FnBatchShape),
                 l \in 0..(Last(Front(g.indices.shape)) - 1) :
                /\ g.params = "values" => SegmentIndexOf(g, b, l) \in 0..n
                /\ g.params # "values" => SegmentIndexOf(g, b, l) \in 0..(n - 1)
    /\ op.name = "call" =>
         /\ gathers[1].params = "values"
         /\ \A b \in Indices(FnBatchShape), l \in 0..(Last(op.x.shape) - 1) :
              \A J \in {JumpsOf(b)}, q \in {QueryAt(op.x, b, l)} :
                SegmentIndexOf(gathers[1], b, l) =
                  (IF op.left_continuous THEN CountBelow(J, q) ELSE CountUpTo(J, q))
    /\ op.name = "integrate" =>
         /\ [i \in 1..6 |-> gathers[i].params] =
              <<"values", "jump_locations", "values", "jump_locations",
                "integrals", "integrals">>
         /\ gathers[5].indices = gathers[2].indices
         /\ gathers[6].indices = gathers[4].indices
         /\ \A b \in Indices(FnBatchShape), l \in 0..(Last(op.x1.shape) - 1) :
              \A J \in {JumpsOf(b)}, n \in {NumJumps},
                 a \in {QueryAt(op.x1, b, l)}, c \in {QueryAt(op.x2, b, l)} :
                /\ SegmentIndexOf(gathers[1], b, l) = CountBelow(J, a)
                /\ SegmentIndexOf(gathers[2], b, l) = Min2(CountBelow(J, a), n - 1)
                /\ SegmentIndexOf(gathers[3], b, l) = CountUpTo(J, c)
                /\ SegmentIndexOf(gathers[4], b, l) = Max2(CountUpTo(J, c) - 1, 0)

\* C11 witness: an integration over a batched function with two jump
\* locations per row, at a point whose x1 lies above every jump location
\* of its row (segment index n read from values, anchor capped at n-1) and
\* whose x2 lies below every jump location (segment index 0, anchor floored
\* at 0), ended without an out-of-range read.
C11_Witness ==
  /\ op.name = "integrate"
  /\ outcome = "ok"
  /\ FnBatchShape = <<2>> /\ NumJumps = 2
  /\ Len(gathers) = 6
  /\ \E l \in 0..(Last(op.x1.shape) - 1) :
       /\ QueryAt(op.x1, <<1>>, l) > JumpsOf(<<1>>)[2]
       /\ QueryAt(op.x2, <<1>>, l) < JumpsOf(<<1>>)[1]
       /\ SegmentIndexOf(gathers[1], <<1>>, l) = 2
       /\ SegmentIndexOf(gathers[2], <<1>>, l) = 1
       /\ SegmentIndexOf(gathers[3], <<1>>, l) = 0
       /\ SegmentIndexOf(gathers[4], <<1>>, l) = 0
       /\ SegmentIndexOf(gathers[5], <<1>>, l) = 1
       /\ SegmentIndexOf(gathers[6], <<1>>, l) = 0

====
